---- MODULE Spec2Model ----
(***************************************************************************)
(* A model of generate-gallery (src/main.go): one invocation of main       *)
(* parses the existing DIR.html (if any), merges the command line with the *)
(* stored parameters, walks the directory, reuses or recomputes every      *)
(* media item under a semaphore of worker goroutines, sorts, marshals and  *)
(* writes DIR.html.  Between invocations the environment edits the         *)
(* directory or the command line.                                          *)
(*                                                                         *)
(* Strings that the program takes apart (paths, extensions, patterns) are  *)
(* sequences of one-character strings; "xE9" stands for the single byte    *)
(* 0xE9 (a Latin-1 file name: not valid UTF-8), "%E9" for its three-byte   *)
(* URL escape and "&amp;" for the five-byte HTML entity.  Times are        *)
(* integers (0 is the zero time.Time).                                     *)
(***************************************************************************)
EXTENDS Integers, Sequences, FiniteSets, TLC

VARIABLES
    flags,        \* the command line: *height, *sortby, *exclude, *procs
    files,        \* the directory on disk: path -> file
    disk,         \* what the file system lets the program do: [walkErr, write]
    htmlFile,     \* DIR.html on disk
    changes,      \* number of edits the environment has made so far
    pc,           \* where main is
    page,         \* var page galleryPage
    cachedItems,  \* var cachedItems map[string]mediaItem (nil = empty)
    sema,         \* [cap, held]: the channel sema and the tokens in it
    idx,          \* the loop variable i of "for i := range page.items"
    workers,      \* state of the goroutine started for each slot
    wg,           \* counter of the sync.WaitGroup
    numCached,    \* var numCached int
    hist,         \* history: how the previous invocation ended (ok), the items
                  \* it left without a preview (dropped), edits since (dirty)
    run,          \* history of this invocation
    codec         \* marshalPage and unmarshalPage applied on their own:
                  \* [step, page, lines, out, again]

vars == <<flags, files, disk, htmlFile, changes, pc, page, cachedItems, sema, idx,
          workers, wg, numCached, hist, run, codec>>

(***************************************************************************)
(* Bounds of the model.                                                    *)
(***************************************************************************)
\* The environment makes at most this many edits (to files or command line).
MaxChanges == 1
\* runtime.NumCPU() of the machine the program runs on.
NumCPU == 2

(***************************************************************************)
(* Program constants.                                                      *)
(***************************************************************************)
defaultHeight == 160
defaultSortBy == "creation_date"

invalidFormat == 0
jpgFormat == 1
pngFormat == 2
gifFormat == 3
webpFormat == 4
webmFormat == 5
mp4Format == 6

(***************************************************************************)
(* Strings.                                                                *)
(***************************************************************************)
\* The byte value of a character (Go compares strings bytewise).
CharCode(c) ==
    CASE c = "&" -> 38 [] c = "(" -> 40 [] c = "." -> 46 [] c = "/" -> 47
      [] c = "4" -> 52 [] c = ":" -> 58 [] c = "G" -> 71 [] c = "J" -> 74
      [] c = "P" -> 80 [] c = "a" -> 97 [] c = "b" -> 98 [] c = "c" -> 99
      [] c = "d" -> 100 [] c = "e" -> 101 [] c = "f" -> 102 [] c = "g" -> 103
      [] c = "i" -> 105 [] c = "j" -> 106 [] c = "m" -> 109 [] c = "n" -> 110
      [] c = "p" -> 112 [] c = "w" -> 119 [] c = "x" -> 120 [] c = "xE9" -> 233

\* unicode.ToLower on the letters of the alphabet (strings.EqualFold).
ToLower(c) ==
    CASE c = "G" -> "g" [] c = "J" -> "j" [] c = "P" -> "p" [] OTHER -> c

\* Go's s < t on strings.
RECURSIVE StrLess(_, _)
StrLess(s, t) ==
    IF t = <<>> THEN FALSE
    ELSE IF s = <<>> THEN TRUE
    ELSE IF Head(s) # Head(t) THEN CharCode(Head(s)) < CharCode(Head(t))
    ELSE StrLess(Tail(s), Tail(t))

HasPrefix(s, pre) ==
    Len(pre) <= Len(s) /\ SubSeq(s, 1, Len(pre)) = pre

HasSuffix(s, suf) ==
    Len(suf) <= Len(s) /\ SubSeq(s, Len(s) - Len(suf) + 1, Len(s)) = suf

TrimSuffix(s, suf) ==
    IF HasSuffix(s, suf) THEN SubSeq(s, 1, Len(s) - Len(suf)) ELSE s

Contains(s, sub) ==
    \E k \in 0..(Len(s) - Len(sub)) : SubSeq(s, k + 1, k + Len(sub)) = sub

EqualFold(s, t) ==
    /\ Len(s) = Len(t)
    /\ \A k \in 1..Len(s) : ToLower(s[k]) = ToLower(t[k])

\* Index of the last "/" of s, 0 if there is none.
LastSlash(s) ==
    IF \E k \in 1..Len(s) : s[k] = "/"
    THEN CHOOSE k \in 1..Len(s) : s[k] = "/" /\ \A l \in (k+1)..Len(s) : s[l] # "/"
    ELSE 0

\* path.Base for the clean, non-empty paths the walk produces.
PathBase(fp) == SubSeq(fp, LastSlash(fp) + 1, Len(fp))

\* path.Ext: the suffix beginning at the final dot in the final element.
PathExt(fp) ==
    LET b == LastSlash(fp)
        dots == {k \in (b+1)..Len(fp) : fp[k] = "."}
    IN  IF dots = {} THEN <<>>
        ELSE SubSeq(fp, CHOOSE k \in dots : \A l \in dots : l <= k, Len(fp))

imageFormatFromExt(ext) ==
    CASE EqualFold(ext, <<".", "j", "p", "g">>)
           \/ EqualFold(ext, <<".", "j", "p", "e", "g">>) -> jpgFormat
      [] EqualFold(ext, <<".", "p", "n", "g">>) -> pngFormat
      [] EqualFold(ext, <<".", "g", "i", "f">>) -> gifFormat
      [] EqualFold(ext, <<".", "w", "e", "b", "p">>) -> webpFormat
      [] EqualFold(ext, <<".", "w", "e", "b", "m">>) -> webmFormat
      [] EqualFold(ext, <<".", "m", "p", "4">>) -> mp4Format
      [] OTHER -> invalidFormat

\* sort.Slice(s, less) for a less that orders the elements of s totally
\* (ties, which the callers never have, keep their order).
SortSlice(s, less(_, _)) ==
    LET Sorted(t) ==
            LET n == Len(t)
                before(j, i) == less(t[j], t[i]) \/ (~less(t[i], t[j]) /\ j < i)
                rank(i) == Cardinality({j \in 1..n : before(j, i)}) + 1
            IN  [k \in 1..n |-> t[CHOOSE i \in 1..n : rank(i) = k]]
    IN  CHOOSE r \in {Sorted(t) : t \in {s}} : TRUE

\* The elements of a finite set as a sequence, in some order.
RECURSIVE SetToSeq(_)
SetToSeq(S) ==
    CHOOSE r \in {IF T = {} THEN <<>>
                  ELSE CHOOSE q \in {<<x>> \o SetToSeq(T \ {x}) :
                                        x \in {CHOOSE y \in T : TRUE}} : TRUE :
                  T \in {S}} : TRUE

(***************************************************************************)
(* The page and its text form (marshalPage, unmarshalPage).                *)
(*                                                                         *)
(* DIR.html is a sequence of lines.  A line is kept as the parts the       *)
(* decoder tells apart: kind "html" is a line that begins with <html and   *)
(* ends with >, kind "a" one that begins with "<a " and ends with </a>,    *)
(* kind "text" any other line.  Attribute values are kept as written       *)
(* (escaped); a base64 JSON attribute is a record [b64, json], where b64   *)
(* tells whether the text is valid base64 and json is the JSON object, or  *)
(* BadJson for bytes that are not JSON.  "<" in an attribute value stands  *)
(* for a raw <, which makes the line ill-formed XML, and "%" in a          *)
(* reference for a % that no two hex digits follow.                        *)
(***************************************************************************)
\* The zero value of galleryPage.
ZeroPage == [Height |-> 0, SortBy |-> "", Exclude |-> <<>>, items |-> <<>>]

\* dateTime: the media creation timestamp if available, else the file
\* modify timestamp.
dateTime(item) ==
    IF item.MediaCreate # 0 THEN item.MediaCreate ELSE item.FileModify

\* shouldEscape(c, encodePath) of net/url: letters, digits, -_.~ and
\* $&+,/:;=@ are kept, every other byte is written as %XX.
ShouldEscape(c) == c \in {"xE9", "("}

PctEscape(c) == CASE c = "xE9" -> "%E9" [] c = "(" -> "%28" [] OTHER -> c

PctUnescape(c) == CASE c = "%E9" -> "xE9" [] c = "%28" -> "(" [] OTHER -> c

\* The first path segment: everything before the first "/".
FirstSegment(s) ==
    IF \E k \in 1..Len(s) : s[k] = "/"
    THEN SubSeq(s, 1, (CHOOSE k \in 1..Len(s) :
                          s[k] = "/" /\ \A l \in 1..(k-1) : s[l] # "/") - 1)
    ELSE s

\* (&url.URL{Path: fp}).String(): the escaped path, preceded by "./" when
\* its first segment holds a colon (RFC 3986 4.2).
UrlString(fp) ==
    LET esc == [k \in 1..Len(fp) |->
                   IF ShouldEscape(fp[k]) THEN PctEscape(fp[k]) ELSE fp[k]]
    IN  IF \E k \in 1..Len(FirstSegment(esc)) : FirstSegment(esc)[k] = ":"
        THEN <<".", "/">> \o esc
        ELSE esc

\* url.Parse(ref).Path for a reference without query or fragment: a first
\* segment with a colon is read as "scheme:opaque", which leaves Path empty.
UrlParsePath(ref) ==
    IF \E k \in 1..Len(FirstSegment(ref)) : FirstSegment(ref)[k] = ":"
    THEN <<>>
    ELSE [k \in 1..Len(ref) |-> PctUnescape(ref[k])]

\* html.EscapeString: of the alphabet only & has an entity.
HtmlEscape(s) == [k \in 1..Len(s) |-> IF s[k] = "&" THEN "&amp;" ELSE s[k]]

\* The value encoding/xml returns for an attribute.
XmlUnescape(s) == [k \in 1..Len(s) |-> IF s[k] = "&amp;" THEN "&" ELSE s[k]]

\* encoding/xml rejects text that is not valid UTF-8 or outside the XML
\* character range (the lone byte 0xE9 is not valid UTF-8) and a raw <
\* inside a quoted attribute value.
XmlLegal(s) == \A k \in 1..Len(s) : s[k] # "xE9" /\ s[k] # "<"

\* url.Parse fails on a % that is not followed by two hex digits.
UrlParseOk(ref) == \A k \in 1..Len(ref) : ref[k] # "%"

\* Bytes that json.Unmarshal rejects.
BadJson == [syntax |-> "bad"]

JsonValid(j) == "syntax" \notin DOMAIN j

\* json.Marshal(page.galleryMetadata), base64 encoded: Exclude has omitempty.
MarshalGallery(p) ==
    [b64 |-> TRUE,
     json |-> IF p.Exclude = <<>>
              THEN [Height |-> p.Height, SortBy |-> p.SortBy]
              ELSE [Height |-> p.Height, SortBy |-> p.SortBy, Exclude |-> p.Exclude]]

\* MarshalMedia that writes the modify time truncated to an even value.
MarshalMediaCoarse(item) ==
    [b64 |-> TRUE,
     json |-> [FileSize |-> item.FileSize, FileModify |-> 2 * (item.FileModify \div 2),
               MediaCreate |-> item.MediaCreate]]

\* json.Marshal(item.mediaMetadata), base64 encoded.
MarshalMedia(item) ==
    [b64 |-> TRUE,
     json |-> [FileSize |-> item.FileSize, FileModify |-> item.FileModify,
               MediaCreate |-> item.MediaCreate]]

TextLine(t) == [kind |-> "text", text |-> t]

HtmlLine(p) ==
    [kind |-> "html", magic |-> "generate-gallery", gallery |-> MarshalGallery(p)]

AnchorLine(item) ==
    [kind |-> "a",
     href |-> HtmlEscape(UrlString(item.filepath)),
     src |-> item.previewSrc,
     title |-> [name |-> HtmlEscape(PathBase(item.filepath)), time |-> dateTime(item)],
     media |-> MarshalMedia(item)]

\* The <a> lines of the items that have a preview, in order.
RECURSIVE AnchorLines(_)
AnchorLines(items) ==
    IF items = <<>> THEN <<>>
    ELSE (IF Len(Head(items).previewSrc) > 0 THEN <<AnchorLine(Head(items))>> ELSE <<>>)
         \o AnchorLines(Tail(items))

marshalPage(p) ==
    <<HtmlLine(p), TextLine("<body>")>> \o AnchorLines(p.items)
        \o <<TextLine("</body>"), TextLine("</html>")>>

\* One step of the loop of unmarshalPage: acc is [err, page, parsedHeader].
UnmarshalLine(acc, line) ==
    CASE line.kind = "html" ->
           IF \/ line.magic = "<"
              \/ line.magic # "generate-gallery"
              \/ ~line.gallery.b64
              \/ ~JsonValid(line.gallery.json)
           THEN [acc EXCEPT !.err = TRUE, !.parsedHeader = @ + 1]
           ELSE LET j == line.gallery.json
                IN  [acc EXCEPT !.parsedHeader = @ + 1,
                                !.page.Height = j.Height,
                                !.page.SortBy = j.SortBy,
                                !.page.Exclude = IF "Exclude" \in DOMAIN j
                                                 THEN j.Exclude ELSE @]
      [] line.kind = "a" ->
           IF \/ ~XmlLegal(line.href) \/ ~XmlLegal(line.title.name)
              \/ ~UrlParseOk(XmlUnescape(line.href))
              \/ ~line.media.b64
              \/ ~JsonValid(line.media.json)
           THEN [acc EXCEPT !.err = TRUE]
           ELSE LET j == line.media.json
                    item == [filepath |-> UrlParsePath(XmlUnescape(line.href)),
                             FileSize |-> j.FileSize,
                             FileModify |-> j.FileModify,
                             MediaCreate |-> j.MediaCreate,
                             previewSrc |-> line.src]
                IN  [acc EXCEPT !.page.items = Append(@, item)]
      [] OTHER -> acc

RECURSIVE UnmarshalLines(_, _)
UnmarshalLines(acc, lines) ==
    IF acc.err \/ lines = <<>> THEN acc
    ELSE UnmarshalLines(UnmarshalLine(acc, Head(lines)), Tail(lines))

\* unmarshalPage that does not count the <html lines.
unmarshalPageUncounted(lines) ==
    LET r == UnmarshalLines([err |-> FALSE, page |-> ZeroPage, parsedHeader |-> 0], lines)
    IN  [err |-> r.err, page |-> r.page]

\* unmarshalPage(b): [err, page].
unmarshalPage(lines) ==
    LET r == UnmarshalLines([err |-> FALSE, page |-> ZeroPage, parsedHeader |-> 0], lines)
    IN  [err |-> r.err \/ r.parsedHeader # 1, page |-> r.page]

(***************************************************************************)
(* Galleries that marshalPage did not write: what an editor, a truncated   *)
(* copy or a merge can make of DIR.html.                                   *)
(***************************************************************************)
Damages ==
    {"text",        \* a line of other content is added
     "cut",         \* the last <a> line loses its end: no longer "<a ...</a>"
     "nohtml",      \* the <html line is gone
     "wrongmagic",  \* data-magic has another value
     "dupmagic",    \* the <html line appears twice
     "xmlhtml",     \* a raw < in an attribute of the <html line
     "b64html",     \* data-gallery is not base64
     "jsonhtml",    \* data-gallery is base64 of bytes that are not JSON
     "xmla",        \* a raw < in the href of an <a> line
     "urla",        \* a lone % in the href of an <a> line
     "b64a",        \* data-media is not base64
     "jsona"}       \* data-media is base64 of bytes that are not JSON

HeaderDamages == {"nohtml", "wrongmagic", "dupmagic", "xmlhtml", "b64html", "jsonhtml"}

AnchorDamages == {"cut", "xmla", "urla", "b64a", "jsona"}

Anchors(lines) == {n \in 1..Len(lines) : lines[n].kind = "a"}

LastAnchor(lines) == CHOOSE n \in Anchors(lines) : \A m \in Anchors(lines) : m <= n

\* The damage can be done to these lines.
DamageApplies(lines, d) ==
    /\ d \in HeaderDamages => Len(lines) > 0 /\ lines[1].kind = "html"
    /\ d \in AnchorDamages => Anchors(lines) # {}
    /\ d = "text" => Len(lines) > 0

Damage(lines, d) ==
    LET n == LastAnchor(lines)
    IN  CASE d = "text" -> <<lines[1], TextLine("<p>")>> \o Tail(lines)
          [] d = "cut" -> [lines EXCEPT ![n] = TextLine("<a")]
          [] d = "nohtml" -> Tail(lines)
          [] d = "wrongmagic" -> [lines EXCEPT ![1].magic = "other"]
          [] d = "dupmagic" -> <<lines[1]>> \o lines
          [] d = "xmlhtml" -> [lines EXCEPT ![1].magic = "<"]
          [] d = "b64html" -> [lines EXCEPT ![1].gallery.b64 = FALSE]
          [] d = "jsonhtml" -> [lines EXCEPT ![1].gallery.json = BadJson]
          [] d = "xmla" -> [lines EXCEPT ![n].href = Append(@, "<")]
          [] d = "urla" -> [lines EXCEPT ![n].href = Append(@, "%")]
          [] d = "b64a" -> [lines EXCEPT ![n].media.b64 = FALSE]
          [] d = "jsona" -> [lines EXCEPT ![n].media.json = BadJson]

(***************************************************************************)
(* The directory and the command lines of the model.                       *)
(***************************************************************************)
PathA == <<"d", "/", "a", ".", "j", "p", "g">>
PathB == <<"d", "/", "x", "/", "b", ".", "p", "n", "g">>
PathC == <<"d", "/", "c", ".", "m", "p", "4">>
\* A file name in Latin-1: the byte 0xE9 is not valid UTF-8.
PathE == <<"d", "/", "xE9", ".", "j", "p", "g">>
\* A file the walk skips.
PathN == <<"d", "/", "n", ".", "g", "o">>
\* Two files of the same name as a.jpg: a video, and a JPEG whose extension
\* is in upper case.
PathV == <<"d", "/", "a", ".", "m", "p", "4">>
PathJ == <<"d", "/", "a", ".", "J", "P", "G">>

dirName == <<"d">>

FileUniverse == {PathA, PathB, PathC, PathE, PathN, PathV, PathJ}

NoFile == [exists |-> FALSE, size |-> 0, mtime |-> 0, kind |-> "none"]

\* What a file holds, as far as the two collaborators can tell:
\*   "good"     decodable, with a creation time in its metadata
\*   "nodate"   decodable, metadata readable but without a creation time
\*   "badmeta"  decodable, metadata unreadable (exif.Decode or ffprobe fails)
\*   "corrupt"  neither metadata nor image can be decoded
Kinds == {"good", "nodate", "badmeta", "corrupt"}

HeightFlags == {0, 100, -1}
SortByFlags == {"", "file_path", "bogus"}
ExcludeFlags == {<<>>, <<"/", "x", "/">>, <<"(">>}
ProcsFlags == {0, 1, NumCPU}

\* RegexpCompiles of a compiler that accepts every pattern.
RegexpCompilesAny(pattern) == TRUE

\* regexp.Compile accepts the patterns of the model except the lone "(".
RegexpCompiles(pattern) == \A k \in 1..Len(pattern) : pattern[k] # "("

\* excludeRx.MatchString(s) for a pattern of literal characters.
MatchString(pattern, s) == Contains(s, pattern)

(***************************************************************************)
(* The collaborators: loadMetadata and computePreview, by what they leave  *)
(* in the item.  f is the file on disk at item.filepath.                   *)
(***************************************************************************)
\* loadMetadata: [err, item].  Only JPEG, WebM and MP4 carry metadata the
\* program reads; the creation time found precedes the file's modify time.
loadMetadata(item, f) ==
    IF imageFormatFromExt(PathExt(item.filepath)) \in {jpgFormat, webmFormat, mp4Format}
    THEN CASE f.kind = "good" ->
                [err |-> FALSE, item |-> [item EXCEPT !.MediaCreate = f.mtime - 1]]
           [] f.kind = "nodate" -> [err |-> FALSE, item |-> item]
           [] OTHER -> [err |-> TRUE, item |-> item]
    ELSE [err |-> FALSE, item |-> item]

\* computePreview(height): [err, item].  The preview is a function of the
\* file contents (kind, size) and of the height.
computePreview(item, height, f) ==
    IF f.exists /\ f.kind # "corrupt"
    THEN [err |-> FALSE,
          item |-> [item EXCEPT !.previewSrc = <<"data:", f.kind, f.size, height>>]]
    ELSE [err |-> TRUE, item |-> item]

\* The external call on the file never returns: exec.Command(...).Output()
\* and the decoders take no timeout and no context (a video ffprobe and
\* ffmpeg block on, a FIFO, a file on a dead network mount).
Hangs(f) == f.kind = "hang"

\* item.loadMetadata() returns: it reads the file of a JPEG, WebM or MP4 only.
LoadMetadataReturns(item, f) ==
    ~(Hangs(f) /\ imageFormatFromExt(PathExt(item.filepath)) \in {jpgFormat, webmFormat, mp4Format})

\* item.computePreview(height) returns.
ComputePreviewReturns(item, f) == ~Hangs(f)

(***************************************************************************)
(* Initial state: a directory of media files (a.jpg and a.mp4 of the same  *)
(* name among them), no DIR.html, and the first command line.              *)
(***************************************************************************)
\* The codec is not exercised on its own.
CodecIdle == [step |-> "idle", page |-> ZeroPage, lines |-> <<>>, damage |-> "none",
              out |-> [err |-> FALSE, page |-> ZeroPage], again |-> <<>>]

File(size, mtime, kind) == [exists |-> TRUE, size |-> size, mtime |-> mtime, kind |-> kind]

NoCalls == [p \in FileUniverse |-> 0]

\* The history of an invocation that has not done anything yet.
RunInit ==
    [repeat |-> FALSE, hadPrior |-> FALSE, prior |-> ZeroPage,
     startExists |-> FALSE, startHtml |-> <<>>,
     scanned |-> <<>>, hits |-> {}, metaCalls |-> NoCalls, previewCalls |-> NoCalls,
     order |-> <<>>, access |-> {}, wrote |-> FALSE]

\* The command line of the first invocation: no flag given, or every flag.
FirstFlags ==
    {[height |-> 0, sortby |-> "", exclude |-> <<>>, procs |-> NumCPU],
     [height |-> 100, sortby |-> "file_path", exclude |-> <<"/", "x", "/">>, procs |-> 1]}

Start ==
    /\ flags \in FirstFlags
    /\ files = [p \in FileUniverse |->
                  CASE p = PathA -> File(1, 2, "good")
                    [] p = PathB -> File(1, 2, "nodate")
                    [] p = PathC -> File(1, 3, "good")
                    [] p = PathN -> File(1, 2, "nodate")
                    [] p = PathV -> File(1, 4, "good")
                    [] OTHER -> NoFile]
    /\ disk = [walkErr |-> FALSE, write |-> "written"]
    /\ htmlFile = [exists |-> FALSE, lines |-> <<>>]
    /\ changes = 0
    /\ pc = "start"
    /\ page = ZeroPage
    /\ cachedItems = <<>>
    /\ sema = [cap |-> 0, held |-> 0]
    /\ idx = 0
    /\ workers = <<>>
    /\ wg = 0
    /\ numCached = 0
    /\ hist = [ok |-> FALSE, dirty |-> FALSE, dropped |-> {}]
    /\ run = RunInit

Init == Start /\ codec = CodecIdle

\* The process is not running: before the first invocation or after an exit.
Stopped == pc \in {"start", "done", "exit1"}

\* What an exited process leaves behind: nothing but the disk.
ResetProcess ==
    /\ page' = ZeroPage
    /\ cachedItems' = <<>>
    /\ sema' = [cap |-> 0, held |-> 0]
    /\ idx' = 0
    /\ workers' = <<>>
    /\ wg' = 0
    /\ numCached' = 0
    /\ run' = RunInit

(***************************************************************************)
(* main, lines 82-107: parse the existing gallery.                         *)
(***************************************************************************)
\* cachedItems[item.filepath] = item for every item in order: the last item
\* of a path wins.
BuildCache(items) ==
    [fp \in {items[k].filepath : k \in 1..Len(items)} |->
        items[CHOOSE k \in 1..Len(items) :
                 /\ items[k].filepath = fp
                 /\ \A l \in (k+1)..Len(items) : items[l].filepath # fp]]

\* ResetItems that keeps the items of the existing gallery in the page.
ResetItemsKeep(items) == items

\* Line 99: page.items = nil.
ResetItems(items) == <<>>

\* HeightChanged that never discards the cache.
HeightChangedNever(height, stored) == FALSE

\* ParseExisting that goes on without a cache when DIR.html cannot be
\* unmarshalled.
ParseExistingLenient ==
    /\ Stopped
    /\ LET r == unmarshalPage(htmlFile.lines)
           h0 == [RunInit EXCEPT !.repeat = hist.ok /\ ~hist.dirty,
                                 !.startExists = htmlFile.exists,
                                 !.startHtml = htmlFile.lines]
       IN  IF ~htmlFile.exists \/ r.err
           THEN /\ page' = ZeroPage
                /\ cachedItems' = <<>>
                /\ run' = h0
           ELSE /\ page' = [r.page EXCEPT !.items = <<>>]
                /\ cachedItems' = IF flags.height # 0 /\ flags.height # r.page.Height
                                  THEN <<>>
                                  ELSE BuildCache(r.page.items)
                /\ run' = [h0 EXCEPT !.hadPrior = TRUE, !.prior = r.page]
    /\ pc' = "params"
    /\ hist' = hist
    /\ sema' = [cap |-> 0, held |-> 0]
    /\ idx' = 0
    /\ workers' = <<>>
    /\ wg' = 0
    /\ numCached' = 0
    /\ UNCHANGED <<codec, flags, files, disk, htmlFile, changes>>

\* The cache is discarded when a height is given that differs from the stored one.
HeightChanged(height, stored) == height # 0 /\ height # stored

ParseExisting ==
    /\ Stopped
    /\ LET r == unmarshalPage(htmlFile.lines)
           h0 == [RunInit EXCEPT !.repeat = hist.ok /\ ~hist.dirty,
                                 !.startExists = htmlFile.exists,
                                 !.startHtml = htmlFile.lines]
       IN  IF ~htmlFile.exists
           THEN /\ page' = ZeroPage
                /\ cachedItems' = <<>>
                /\ pc' = "params"
                /\ run' = h0
                /\ hist' = hist
           ELSE IF r.err
           THEN /\ page' = r.page
                /\ cachedItems' = <<>>
                /\ pc' = "exit1"
                /\ run' = h0
                /\ hist' = [ok |-> FALSE, dirty |-> FALSE, dropped |-> {}]
           ELSE /\ page' = [r.page EXCEPT !.items = ResetItems(@)]
                /\ cachedItems' = IF HeightChanged(flags.height, r.page.Height)
                                  THEN <<>>
                                  ELSE BuildCache(r.page.items)
                /\ pc' = "params"
                /\ run' = [h0 EXCEPT !.hadPrior = TRUE, !.prior = r.page]
                /\ hist' = hist
    /\ sema' = [cap |-> 0, held |-> 0]
    /\ idx' = 0
    /\ workers' = <<>>
    /\ wg' = 0
    /\ numCached' = 0
    /\ UNCHANGED <<codec, flags, files, disk, htmlFile, changes>>

(***************************************************************************)
(* main, lines 109-152: the generation parameters.                         *)
(***************************************************************************)
EffectiveHeight(height, stored) ==
    IF height # 0 THEN height ELSE IF stored = 0 THEN defaultHeight ELSE stored

EffectiveSortBy(sortby, stored) ==
    IF sortby # "" THEN sortby ELSE IF stored = "" THEN defaultSortBy ELSE stored

\* EffectiveExclude that forgets the stored pattern.
EffectiveExcludeNoCarry(exclude, stored) == exclude

EffectiveExclude(exclude, stored) ==
    IF exclude # <<>> THEN exclude ELSE stored

EffectiveProcs(procs) == IF procs <= 0 THEN NumCPU ELSE procs

Exit1 ==
    /\ pc' = "exit1"
    /\ hist' = [ok |-> FALSE, dirty |-> FALSE, dropped |-> {}]

HandleParams ==
    /\ pc = "params"
    /\ LET h == EffectiveHeight(flags.height, page.Height)
           s == EffectiveSortBy(flags.sortby, page.SortBy)
           e == EffectiveExclude(flags.exclude, page.Exclude)
       IN  IF h <= 0
           THEN /\ page' = [page EXCEPT !.Height = h]
                /\ Exit1
                /\ sema' = sema
           ELSE IF s # "creation_date" /\ s # "file_path"
           THEN /\ page' = [page EXCEPT !.Height = h, !.SortBy = s]
                /\ Exit1
                /\ sema' = sema
           ELSE IF e # <<>> /\ ~RegexpCompiles(e)
           THEN /\ page' = [page EXCEPT !.Height = h, !.SortBy = s, !.Exclude = e]
                /\ Exit1
                /\ sema' = sema
           ELSE /\ page' = [page EXCEPT !.Height = h, !.SortBy = s, !.Exclude = e]
                /\ sema' = [cap |-> EffectiveProcs(flags.procs), held |-> 0]
                /\ pc' = "walk"
                /\ hist' = hist
    /\ UNCHANGED <<codec, flags, files, disk, htmlFile, changes, cachedItems, idx, workers, wg,
                   numCached, run>>

(***************************************************************************)
(* main, lines 154-202: walk the directory and collect the media items.    *)
(***************************************************************************)
\* The files the walk keeps: regular files under dirName with a media extension.
allFileInfos ==
    {fp \in FileUniverse :
        /\ files[fp].exists
        /\ HasPrefix(fp, dirName \o <<"/">>)
        /\ imageFormatFromExt(PathExt(fp)) # invalidFormat}

\* allFileExts: the extensions found for each name (path without extension).
allFileExts ==
    [name \in {TrimSuffix(fp, PathExt(fp)) : fp \in allFileInfos} |->
        {PathExt(fp) : fp \in {q \in allFileInfos : TrimSuffix(q, PathExt(q)) = name}}]

\* ExtLess that puts the videos first.
ExtLessVideoFirst(a, b) ==
    IF imageFormatFromExt(a) # imageFormatFromExt(b)
    THEN imageFormatFromExt(a) > imageFormatFromExt(b)
    ELSE StrLess(a, b)

\* The order of the extensions of one name: static images first.
ExtLess(a, b) ==
    IF imageFormatFromExt(a) # imageFormatFromExt(b)
    THEN imageFormatFromExt(a) < imageFormatFromExt(b)
    ELSE StrLess(a, b)

\* name + exts[0] after the sort.
CanonicalFile(name) == name \o SortSlice(SetToSeq(allFileExts[name]), ExtLess)[1]

\* Excluded that matches the pattern against the base name only.
ExcludedBaseName(exclude, fp) == exclude # <<>> /\ MatchString(exclude, PathBase(fp))

Excluded(exclude, fp) == exclude # <<>> /\ MatchString(exclude, <<"/">> \o fp)

PathLess(a, b) == StrLess(a.filepath, b.filepath)

\* CollectItems of a loop that drops the excluded files first and then takes
\* the first extension of those that are left.
CollectItemsExcludeFirst(exclude) ==
    LET left(name) == {e \in allFileExts[name] : ~Excluded(exclude, name \o e)}
        kept == {name \o SortSlice(SetToSeq(left(name)), ExtLess)[1] :
                    name \in {n \in DOMAIN allFileExts : left(n) # {}}}
        fresh == {[filepath |-> fp, FileSize |-> files[fp].size,
                   FileModify |-> files[fp].mtime, MediaCreate |-> 0,
                   previewSrc |-> <<>>] : fp \in kept}
    IN  SortSlice(page.items \o SetToSeq(fresh), PathLess)

\* page.items after the collection loop, which appends to page.items, and
\* the sort by path.
CollectItems(exclude) ==
    LET kept == {fp \in {CanonicalFile(name) : name \in DOMAIN allFileExts} :
                    ~Excluded(exclude, fp)}
        fresh == {[filepath |-> fp, FileSize |-> files[fp].size,
                   FileModify |-> files[fp].mtime, MediaCreate |-> 0,
                   previewSrc |-> <<>>] : fp \in kept}
    IN  SortSlice(page.items \o SetToSeq(fresh), PathLess)

\* filepath.Walk reports an error when a directory cannot be read.
Walk ==
    /\ pc = "walk"
    /\ IF disk.walkErr
       THEN /\ Exit1
            /\ UNCHANGED <<page, workers, run, idx>>
       ELSE /\ LET items == CollectItems(page.Exclude)
               IN  /\ page' = [page EXCEPT !.items = items]
                   /\ workers' = [k \in 1..Len(items) |-> "none"]
                   /\ run' = [run EXCEPT !.scanned = items]
            /\ idx' = 1
            /\ pc' = "loop"
            /\ hist' = hist
    /\ UNCHANGED <<codec, flags, files, disk, htmlFile, changes, cachedItems, sema, wg, numCached>>

(***************************************************************************)
(* main, lines 204-240: reuse or recompute every item.                     *)
(***************************************************************************)
\* CacheValid without the comparison of the file sizes.
CacheValidNoSize(item, cache) ==
    /\ item.filepath \in DOMAIN cache
    /\ item.FileModify = cache[item.filepath].FileModify

\* Lines 217-219: the cached item of the same path is up to date.
CacheValid(item, cache) ==
    /\ item.filepath \in DOMAIN cache
    /\ item.FileSize = cache[item.filepath].FileSize
    /\ item.FileModify = cache[item.filepath].FileModify

\* The main goroutine; the goroutine started in iteration i is i.
MainThread == 0

\* An access (read or write) of page.items[slot] through the pointer "item":
\* by the main goroutine or by the goroutine started in iteration "by", and
\* whether the slot had been handed to a goroutine by then.
Access(slot, by) ==
    [slot |-> slot, by |-> by, handed |-> workers[slot] # "none"]

\* ReuseCached without the "continue": the goroutine is started as well.
ReuseCachedNoContinue ==
    /\ pc = "loop"
    /\ idx <= Len(page.items)
    /\ CacheValid(page.items[idx], cachedItems)
    /\ sema.held < sema.cap
    /\ page' = [page EXCEPT !.items[idx] = cachedItems[page.items[idx].filepath]]
    /\ numCached' = numCached + 1
    /\ sema' = [sema EXCEPT !.held = @ + 1]
    /\ wg' = wg + 1
    /\ workers' = [workers EXCEPT ![idx] = "started"]
    /\ idx' = idx + 1
    /\ run' = [run EXCEPT !.hits = @ \cup {page.items[idx].filepath},
                          !.access = @ \cup {Access(idx, MainThread)}]
    /\ UNCHANGED <<codec, flags, files, disk, htmlFile, changes, pc, cachedItems, hist>>

\* Lines 216-223: the item is taken from the cache.
ReuseCached ==
    /\ pc = "loop"
    /\ idx <= Len(page.items)
    /\ CacheValid(page.items[idx], cachedItems)
    /\ page' = [page EXCEPT !.items[idx] = cachedItems[page.items[idx].filepath]]
    /\ numCached' = numCached + 1
    /\ idx' = idx + 1
    /\ run' = [run EXCEPT !.hits = @ \cup {page.items[idx].filepath},
                          !.access = @ \cup {Access(idx, MainThread)}]
    /\ UNCHANGED <<codec, flags, files, disk, htmlFile, changes, pc, cachedItems, sema, workers, wg, hist>>

\* SemaFree of a semaphore that never blocks.
SemaFreeAlways(s) == TRUE

\* The semaphore has a free slot: "sema <- struct{}{}" does not block.
SemaFree(s) == s.held < s.cap

\* StartWorker of a loop that waits for the goroutines it has started
\* before it starts the next.
StartWorkerSerial ==
    /\ pc = "loop"
    /\ idx <= Len(page.items)
    /\ ~CacheValid(page.items[idx], cachedItems)
    /\ SemaFree(sema)
    /\ wg = 0
    /\ sema' = [sema EXCEPT !.held = @ + 1]
    /\ wg' = wg + 1
    /\ workers' = [workers EXCEPT ![idx] = "started"]
    /\ idx' = idx + 1
    /\ run' = [run EXCEPT !.access = @ \cup {Access(idx, MainThread)}]
    /\ UNCHANGED <<codec, flags, files, disk, htmlFile, changes, pc, page, cachedItems, numCached, hist>>

\* Lines 225-228: take a slot of the semaphore and start the goroutine.
StartWorker ==
    /\ pc = "loop"
    /\ idx <= Len(page.items)
    /\ ~CacheValid(page.items[idx], cachedItems)
    /\ SemaFree(sema)
    /\ sema' = [sema EXCEPT !.held = @ + 1]
    /\ wg' = wg + 1
    /\ workers' = [workers EXCEPT ![idx] = "started"]
    /\ idx' = idx + 1
    /\ run' = [run EXCEPT !.access = @ \cup {Access(idx, MainThread)}]
    /\ UNCHANGED <<codec, flags, files, disk, htmlFile, changes, pc, page, cachedItems, numCached, hist>>

\* WorkerLoadMetadata that returns from the goroutine on an error.
WorkerLoadMetadataReturn(w) ==
    /\ workers[w] = "started"
    /\ LET r == loadMetadata(page.items[w], files[page.items[w].filepath])
       IN  /\ page' = [page EXCEPT !.items[w] = r.item]
           /\ workers' = [workers EXCEPT ![w] = IF r.err THEN "computed" ELSE "loaded"]
    /\ run' = [run EXCEPT !.metaCalls[page.items[w].filepath] = @ + 1,
                          !.access = @ \cup {Access(w, w)}]
    /\ UNCHANGED <<codec, flags, files, disk, htmlFile, changes, pc, cachedItems, sema, idx, wg,
                   numCached, hist>>

\* WorkerLoadMetadata of goroutines that share the loop's item pointer: the
\* metadata goes to the item the loop has reached.
WorkerLoadMetadataShared(w) ==
    /\ workers[w] = "started"
    /\ page' = [page EXCEPT !.items[idx - 1] = loadMetadata(@, files[@.filepath]).item]
    /\ workers' = [workers EXCEPT ![w] = "loaded"]
    /\ run' = [run EXCEPT !.metaCalls[page.items[idx - 1].filepath] = @ + 1,
                          !.access = @ \cup {Access(idx - 1, w)}]
    /\ UNCHANGED <<codec, flags, files, disk, htmlFile, changes, pc, cachedItems, sema, idx, wg,
                   numCached, hist>>

\* Line 231: item.loadMetadata(); an error is only logged.
WorkerLoadMetadata(w) ==
    /\ workers[w] = "started"
    /\ LoadMetadataReturns(page.items[w], files[page.items[w].filepath])
    /\ page' = [page EXCEPT !.items[w] = loadMetadata(@, files[@.filepath]).item]
    /\ workers' = [workers EXCEPT ![w] = "loaded"]
    /\ run' = [run EXCEPT !.metaCalls[page.items[w].filepath] = @ + 1,
                          !.access = @ \cup {Access(w, w)}]
    /\ UNCHANGED <<codec, flags, files, disk, htmlFile, changes, pc, cachedItems, sema, idx, wg,
                   numCached, hist>>

\* WorkerComputePreview with log.Fatalf in place of log.Printf.
WorkerComputePreviewFatal(w) ==
    /\ workers[w] = "loaded"
    /\ LET r == computePreview(page.items[w], page.Height, files[page.items[w].filepath])
       IN  /\ page' = [page EXCEPT !.items[w] = r.item]
           /\ IF r.err
              THEN pc' = "exit1" /\ hist' = [ok |-> FALSE, dirty |-> FALSE, dropped |-> {}]
              ELSE pc' = pc /\ hist' = hist
    /\ workers' = [workers EXCEPT ![w] = "computed"]
    /\ run' = [run EXCEPT !.previewCalls[page.items[w].filepath] = @ + 1,
                          !.order = Append(@, w),
                          !.access = @ \cup {Access(w, w)}]
    /\ UNCHANGED <<codec, flags, files, disk, htmlFile, changes, cachedItems, sema, idx, wg, numCached>>

\* WorkerComputePreview of goroutines that share the loop's item pointer:
\* the preview goes to the item the loop has reached.
WorkerComputePreviewShared(w) ==
    /\ workers[w] = "loaded"
    /\ page' = [page EXCEPT !.items[idx - 1] =
                                computePreview(@, page.Height, files[@.filepath]).item]
    /\ workers' = [workers EXCEPT ![w] = "computed"]
    /\ run' = [run EXCEPT !.previewCalls[page.items[idx - 1].filepath] = @ + 1,
                          !.order = Append(@, w),
                          !.access = @ \cup {Access(idx - 1, w)}]
    /\ UNCHANGED <<codec, flags, files, disk, htmlFile, changes, pc, cachedItems, sema, idx, wg,
                   numCached, hist>>

\* Line 234: item.computePreview(page.Height); an error is only logged.
WorkerComputePreview(w) ==
    /\ workers[w] = "loaded"
    /\ ComputePreviewReturns(page.items[w], files[page.items[w].filepath])
    /\ page' = [page EXCEPT !.items[w] =
                                computePreview(@, page.Height, files[@.filepath]).item]
    /\ workers' = [workers EXCEPT ![w] = "computed"]
    /\ run' = [run EXCEPT !.previewCalls[page.items[w].filepath] = @ + 1,
                          !.order = Append(@, w),
                          !.access = @ \cup {Access(w, w)}]
    /\ UNCHANGED <<codec, flags, files, disk, htmlFile, changes, pc, cachedItems, sema, idx, wg,
                   numCached, hist>>

\* WorkerRelease of a goroutine that does not give its slot back.
WorkerReleaseLeak(w) ==
    /\ workers[w] = "computed"
    /\ workers' = [workers EXCEPT ![w] = "released"]
    /\ UNCHANGED <<codec, flags, files, disk, htmlFile, changes, pc, page, cachedItems, sema, idx,
                   wg, numCached, hist, run>>

\* Line 230: defer func() { <-sema }().
WorkerRelease(w) ==
    /\ workers[w] = "computed"
    /\ sema' = [sema EXCEPT !.held = @ - 1]
    /\ workers' = [workers EXCEPT ![w] = "released"]
    /\ UNCHANGED <<codec, flags, files, disk, htmlFile, changes, pc, page, cachedItems, idx, wg,
                   numCached, hist, run>>

\* Line 229: defer wg.Done().
WorkerDone(w) ==
    /\ workers[w] = "released"
    /\ wg' = wg - 1
    /\ workers' = [workers EXCEPT ![w] = "exited"]
    /\ UNCHANGED <<codec, flags, files, disk, htmlFile, changes, pc, page, cachedItems, sema, idx,
                   numCached, hist, run>>

\* WaitReturns of a main that does not wait for the goroutines.
WaitReturnsAtOnce(count) == TRUE

\* wg.Wait() returns.
WaitReturns(count) == count = 0

\* Line 239: the loop is over and wg.Wait() returns.
Wait ==
    /\ pc = "loop"
    /\ idx > Len(page.items)
    /\ WaitReturns(wg)
    /\ pc' = "finish"
    /\ UNCHANGED <<codec, flags, files, disk, htmlFile, changes, page, cachedItems, sema, idx,
                   workers, wg, numCached, hist, run>>

(***************************************************************************)
(* main, lines 242-266: sort, marshal, write unless identical.             *)
(***************************************************************************)
\* DateLess that compares the file modify times.
DateLessByModify(a, b) ==
    IF a.FileModify # b.FileModify THEN a.FileModify < b.FileModify
    ELSE StrLess(a.filepath, b.filepath)

\* Lines 244-251: by dateTime, then by path.
DateLess(a, b) ==
    IF dateTime(a) # dateTime(b) THEN dateTime(a) < dateTime(b)
    ELSE StrLess(a.filepath, b.filepath)

SortItems(sortBy, items) ==
    IF sortBy = "creation_date" THEN SortSlice(items, DateLess) ELSE items

\* What os.WriteFile does: write the file, fail to open it (the file stays
\* as it was), or fail after it has truncated it (no room on the disk).
WriteOutcomes == {"written", "denied", "truncated"}

Finish ==
    /\ pc = "finish"
    /\ \E sorted \in {SortItems(page.SortBy, page.items)} :
       \E html \in {marshalPage([page EXCEPT !.items = sorted])} :
       LET ok == [ok |-> TRUE, dirty |-> FALSE,
                  dropped |-> {sorted[k].filepath :
                                  k \in {l \in DOMAIN sorted :
                                            Len(sorted[l].previewSrc) = 0}}]
       IN  /\ page' = [page EXCEPT !.items = sorted]
           /\ IF htmlFile.exists /\ htmlFile.lines = html
              THEN /\ htmlFile' = htmlFile
                   /\ run' = run
                   /\ pc' = "done"
                   /\ hist' = ok
              ELSE CASE disk.write = "written" ->
                          /\ htmlFile' = [exists |-> TRUE, lines |-> html]
                          /\ run' = [run EXCEPT !.wrote = TRUE]
                          /\ pc' = "done"
                          /\ hist' = ok
                     [] disk.write = "denied" ->
                          /\ htmlFile' = htmlFile
                          /\ run' = run
                          /\ Exit1
                     [] disk.write = "truncated" ->
                          /\ htmlFile' = [exists |-> TRUE, lines |-> <<>>]
                          /\ run' = [run EXCEPT !.wrote = TRUE]
                          /\ Exit1
    /\ UNCHANGED <<codec, flags, files, disk, changes, cachedItems, sema, idx, workers, wg, numCached>>

(***************************************************************************)
(* The environment, while the program is not running.                      *)
(***************************************************************************)
Mutable == FileUniverse \ {PathN}

Edited ==
    /\ Stopped
    /\ changes < MaxChanges
    /\ changes' = changes + 1
    /\ pc' = "start"
    /\ hist' = [hist EXCEPT !.dirty = TRUE]
    /\ ResetProcess
    /\ UNCHANGED codec

\* touch: the modify time changes, the contents do not.
TouchFile(p) ==
    /\ files[p].exists
    /\ files' = [files EXCEPT ![p].mtime = 5 - @]
    /\ Edited
    /\ UNCHANGED <<flags, disk, htmlFile>>

\* The file is rewritten: new contents of another size and kind.
RewriteFile(p, kind) ==
    /\ files[p].exists
    /\ kind # files[p].kind
    /\ files' = [files EXCEPT ![p].size = 3 - @, ![p].kind = kind]
    /\ Edited
    /\ UNCHANGED <<flags, disk, htmlFile>>

DeleteFile(p) ==
    /\ files[p].exists
    /\ files' = [files EXCEPT ![p] = NoFile]
    /\ Edited
    /\ UNCHANGED <<flags, disk, htmlFile>>

CreateFile(p, kind) ==
    /\ ~files[p].exists
    /\ files' = [files EXCEPT ![p] = File(1, 2, kind)]
    /\ Edited
    /\ UNCHANGED <<flags, disk, htmlFile>>

\* The next invocation is given another command line.
SetFlags(f) ==
    /\ f # flags
    /\ \/ f = [flags EXCEPT !.height = f.height]
       \/ f = [flags EXCEPT !.sortby = f.sortby]
       \/ f = [flags EXCEPT !.exclude = f.exclude]
       \/ f = [flags EXCEPT !.procs = f.procs]
    /\ flags' = f
    /\ Edited
    /\ UNCHANGED <<files, disk, htmlFile>>

\* The permissions of the directory or the room on the disk change: the walk
\* or the write of DIR.html fails from now on, or succeeds again.
SetDisk(d) ==
    /\ d # disk
    /\ \/ d = [disk EXCEPT !.walkErr = d.walkErr]
       \/ d = [disk EXCEPT !.write = d.write]
    /\ disk' = d
    /\ Edited
    /\ UNCHANGED <<flags, files, htmlFile>>

\* A file is copied into the directory and takes the last room on the disk:
\* from now on a write fails after the file has been truncated.
FillDisk(p) ==
    /\ ~files[p].exists
    /\ files' = [files EXCEPT ![p] = File(2, 2, "good")]
    /\ disk' = [disk EXCEPT !.write = "truncated"]
    /\ Edited
    /\ UNCHANGED <<flags, htmlFile>>

\* The damages done to DIR.html between invocations.
ArtifactEdits == {"text", "cut", "nohtml", "dupmagic", "jsona"}

\* DIR.html is edited by hand or damaged.
EditArtifact(d) ==
    /\ htmlFile.exists
    /\ DamageApplies(htmlFile.lines, d)
    /\ htmlFile' = [htmlFile EXCEPT !.lines = Damage(@, d)]
    /\ Edited
    /\ UNCHANGED <<flags, files, disk>>

\* DIR.html is removed.
RemoveArtifact ==
    /\ htmlFile.exists
    /\ htmlFile' = [exists |-> FALSE, lines |-> <<>>]
    /\ Edited
    /\ UNCHANGED <<flags, files, disk>>

Next ==
    \/ ParseExisting
    \/ HandleParams
    \/ Walk
    \/ ReuseCached
    \/ StartWorker
    \/ \E w \in DOMAIN workers : WorkerLoadMetadata(w)
    \/ \E w \in DOMAIN workers : WorkerComputePreview(w)
    \/ \E w \in DOMAIN workers : WorkerRelease(w)
    \/ \E w \in DOMAIN workers : WorkerDone(w)
    \/ Wait
    \/ Finish
    \/ \E p \in Mutable : TouchFile(p)
    \/ \E p \in Mutable, k \in Kinds : RewriteFile(p, k)
    \/ \E p \in Mutable : DeleteFile(p)
    \/ \E p \in Mutable, k \in Kinds : CreateFile(p, k)
    \/ \E h \in HeightFlags, s \in SortByFlags, e \in ExcludeFlags, n \in ProcsFlags :
          SetFlags([height |-> h, sortby |-> s, exclude |-> e, procs |-> n])
    \/ \E e \in BOOLEAN, w \in WriteOutcomes : SetDisk([walkErr |-> e, write |-> w])
    \/ \E p \in Mutable : FillDisk(p)
    \/ \E d \in ArtifactEdits : EditArtifact(d)
    \/ RemoveArtifact

Spec == Init /\ [][Next]_vars

(***************************************************************************)
(* marshalPage and unmarshalPage on their own: a page is marshalled, the   *)
(* text is damaged or not, unmarshalled, and the result marshalled again.  *)
(***************************************************************************)
\* The longest item list given to marshalPage.
MaxItems == 2

\* A directory whose name holds a colon, and a file name with an ampersand.
PathColon == <<"a", ":", "b", "/", "a", ".", "j", "p", "g">>
PathAmp == <<"d", "/", "&", ".", "p", "n", "g">>

\* Items with a preview.
CodecItems ==
    [filepath : {PathA, PathE, PathColon, PathAmp},
     FileSize : {1},
     FileModify : {2},
     MediaCreate : {0, 1},
     previewSrc : {<<"data:", "good", 1, 100>>}]

CodecPages ==
    [Height : {100},
     SortBy : {"creation_date", "file_path"},
     Exclude : {<<>>, <<"/", "x", "/">>},
     items : UNION {[1..n -> CodecItems] : n \in 0..MaxItems}]

CodecInit ==
    /\ Start
    /\ codec \in {[CodecIdle EXCEPT !.step = "input", !.page = p] : p \in CodecPages}

programVars == <<flags, files, disk, htmlFile, changes, pc, page, cachedItems, sema,
                 idx, workers, wg, numCached, hist, run>>

CodecEncode ==
    /\ codec.step = "input"
    /\ codec' = [codec EXCEPT !.step = "encoded", !.lines = marshalPage(codec.page)]
    /\ UNCHANGED programVars

CodecDamage(d) ==
    /\ codec.step = "encoded"
    /\ DamageApplies(codec.lines, d)
    /\ codec' = [codec EXCEPT !.step = "damaged", !.damage = d,
                              !.lines = Damage(@, d)]
    /\ UNCHANGED programVars

CodecDecode ==
    /\ codec.step \in {"encoded", "damaged"}
    /\ codec' = [codec EXCEPT !.step = "decoded", !.out = unmarshalPage(codec.lines)]
    /\ UNCHANGED programVars

\* The caller goes on with the page only when unmarshalPage returned no error.
CodecReencode ==
    /\ codec.step = "decoded"
    /\ ~codec.out.err
    /\ codec' = [codec EXCEPT !.step = "reencoded", !.again = marshalPage(codec.out.page)]
    /\ UNCHANGED programVars

CodecNext ==
    \/ CodecEncode
    \/ \E d \in Damages : CodecDamage(d)
    \/ CodecDecode
    \/ CodecReencode

CodecSpec == CodecInit /\ [][CodecNext]_vars

(***************************************************************************)
(* The program under fair scheduling: invocations of one directory that    *)
(* nobody edits, for every limit of the semaphore, with or without a file  *)
(* on which the external call hangs, with or without an exclusion pattern. *)
(***************************************************************************)
\* -exclude patterns that match one extension.
FairExcludes == {<<>>, <<"j", "p", "g">>, <<"m", "p", "4">>}

FairFlags ==
    {[height |-> 0, sortby |-> "", exclude |-> e, procs |-> n] :
        e \in FairExcludes, n \in 1..NumCPU}

\* a.jpg and a.mp4, with or without a.JPG; x/b.png; c.mp4, which may hang.
FairFiles ==
    {[p \in FileUniverse |->
        CASE p = PathA -> File(1, 2, "good")
          [] p = PathB -> File(1, 2, "nodate")
          [] p = PathC -> File(1, 3, kc)
          [] p = PathN -> File(1, 2, "nodate")
          [] p = PathV -> File(1, 4, "good")
          [] p = PathJ -> j
          [] OTHER -> NoFile] :
        kc \in {"good", "hang"}, j \in {NoFile, File(1, 2, "good")}}

FairInit ==
    /\ flags \in FairFlags
    /\ files \in FairFiles
    /\ disk = [walkErr |-> FALSE, write |-> "written"]
    /\ htmlFile = [exists |-> FALSE, lines |-> <<>>]
    /\ changes = 0
    /\ pc = "start"
    /\ page = ZeroPage
    /\ cachedItems = <<>>
    /\ sema = [cap |-> 0, held |-> 0]
    /\ idx = 0
    /\ workers = <<>>
    /\ wg = 0
    /\ numCached = 0
    /\ hist = [ok |-> FALSE, dirty |-> FALSE, dropped |-> {}]
    /\ run = RunInit
    /\ codec = CodecIdle

\* The steps of the program alone.
Program ==
    \/ ParseExisting
    \/ HandleParams
    \/ Walk
    \/ ReuseCached
    \/ StartWorker
    \/ \E w \in DOMAIN workers : WorkerLoadMetadata(w)
    \/ \E w \in DOMAIN workers : WorkerComputePreview(w)
    \/ \E w \in DOMAIN workers : WorkerRelease(w)
    \/ \E w \in DOMAIN workers : WorkerDone(w)
    \/ Wait
    \/ Finish

\* The steps of the main goroutine of a running process.
MainStep == HandleParams \/ Walk \/ ReuseCached \/ StartWorker \/ Wait \/ Finish

\* The steps of the goroutine started in iteration w.
WorkerStep(w) ==
    /\ w \in DOMAIN workers
    /\ \/ WorkerLoadMetadata(w)
       \/ WorkerComputePreview(w)
       \/ WorkerRelease(w)
       \/ WorkerDone(w)

Slots == 1..Cardinality(FileUniverse)

\* The steps of a running process.
Running == MainStep \/ \E w \in DOMAIN workers : WorkerStep(w)

\* The Go scheduler runs a goroutine that can run: a process in which some
\* goroutine can take a step takes a step.  Nothing makes the user start the
\* program again.
FairSpec == FairInit /\ [][Program]_vars /\ WF_vars(Running)

(***************************************************************************)
(* Properties.                                                             *)
(***************************************************************************)
\* The slots of page.items still hold the items in the order of the scan.
InLoop == pc \in {"loop", "finish"}

\* The slots the loop has dealt with.
Planned == IF InLoop THEN 1..(idx - 1) ELSE {}

\* The record of the prior gallery for a path, as decoded, whether or not
\* the cache was discarded.
PriorCache == BuildCache(run.prior.items)

Recomputed(k) == workers[k] # "none"

Reused(k) == run.scanned[k].filepath \in run.hits /\ workers[k] = "none"

\* The file sizes, modify times or heights of the scanned item and of its
\* prior record differ, or there is no prior record.
Stale(k) ==
    LET it == run.scanned[k]
    IN  \/ it.filepath \notin DOMAIN PriorCache
        \/ it.FileSize # PriorCache[it.filepath].FileSize
        \/ it.FileModify # PriorCache[it.filepath].FileModify
        \/ page.Height # run.prior.Height

\* C1: every scanned item whose size, modify time or preview height differs
\* from its record in the prior gallery, or that has no such record, is
\* recomputed; an item for which all three agree is the prior record,
\* preview included.
C1_CacheInvalidation ==
    \A k \in Planned :
        IF Stale(k)
        THEN Recomputed(k) /\ run.scanned[k].filepath \notin run.hits
        ELSE Reused(k) /\ page.items[k] = PriorCache[run.scanned[k].filepath]

\* A run past the barrier that reused one item and recomputed another whose
\* prior record has another size or modify time.
C1_Witness ==
    /\ pc = "finish"
    /\ \E k \in Planned : ~Stale(k) /\ Len(page.items[k].previewSrc) > 0
    /\ \E k \in Planned :
          /\ Recomputed(k)
          /\ run.scanned[k].filepath \in DOMAIN PriorCache
          /\ page.Height = run.prior.Height

\* C2: an invocation that follows a successful one with nothing changed in
\* between ends normally, with the gallery file as it was and not written.
C2_IdempotentOutput ==
    (run.repeat /\ pc \in {"done", "exit1"})
        => (pc = "done" /\ ~run.wrote /\ htmlFile.lines = run.startHtml)

\* C3 as stated: an invocation that follows a successful one with nothing
\* changed in between calls no collaborator and starts no worker.
C3_NoRecomputation ==
    run.repeat =>
        /\ \A p \in FileUniverse : run.metaCalls[p] = 0 /\ run.previewCalls[p] = 0
        /\ \A k \in DOMAIN workers : workers[k] = "none"

\* C3 amended: in an invocation that follows a successful one with nothing
\* changed in between, the items recomputed are exactly those without an
\* entry in the gallery the first one left, among them every item the first
\* one left without a preview; every item with an entry is reused without
\* a collaborator call.
C3_RepeatRecomputesOnlyMissing ==
    run.repeat =>
        \A k \in Planned :
            LET fp == run.scanned[k].filepath
            IN  /\ IF fp \in DOMAIN PriorCache
                   THEN /\ Reused(k)
                        /\ run.metaCalls[fp] = 0
                        /\ run.previewCalls[fp] = 0
                   ELSE Recomputed(k)
                /\ fp \in hist.dropped => fp \notin DOMAIN PriorCache

\* A repeated run past the barrier with a reused item and a recomputed one
\* that the first run left without a preview.
C3_Witness ==
    /\ run.repeat
    /\ pc = "finish"
    /\ \E k \in Planned : Reused(k)
    /\ \E k \in Planned :
          /\ Recomputed(k)
          /\ run.scanned[k].filepath \in hist.dropped
          /\ run.previewCalls[run.scanned[k].filepath] = 1

\* The height given on the command line differs from the height stored in
\* the prior gallery.
HeightRequestDiffers ==
    run.hadPrior /\ flags.height # 0 /\ flags.height # run.prior.Height

\* C4: when the requested height differs from the height of the prior
\* gallery no item is reused: every scanned item is recomputed.
C4_GlobalHeightInvalidation ==
    HeightRequestDiffers =>
        /\ run.hits = {}
        /\ numCached = 0
        /\ \A k \in Planned : Recomputed(k)

\* Such a run past the barrier, with an item whose size and modify time are
\* those of its prior record.
C4_Witness ==
    /\ HeightRequestDiffers
    /\ pc = "finish"
    /\ \E k \in Planned :
          /\ run.scanned[k].filepath \in DOMAIN PriorCache
          /\ run.scanned[k].FileSize = PriorCache[run.scanned[k].filepath].FileSize
          /\ run.scanned[k].FileModify = PriorCache[run.scanned[k].filepath].FileModify
          /\ workers[k] = "exited"

\* The goroutines that hold a slot of the semaphore: started, "<-sema" not
\* yet executed.
InFlight == {w \in DOMAIN workers : workers[w] \in {"started", "loaded", "computed"}}

\* C5: the recomputations in flight never exceed the concurrency limit,
\* which is the -procs value when that is positive and at least 1 otherwise.
C5_BoundedConcurrency ==
    /\ Cardinality(InFlight) <= sema.cap
    /\ pc \in {"walk", "loop", "finish", "done"} =>
          /\ sema.cap >= 1
          /\ flags.procs > 0 => sema.cap = flags.procs

\* -procs is 0, the limit is reached and main waits for a slot.
C5_Witness ==
    /\ flags.procs <= 0
    /\ pc = "loop"
    /\ idx <= Len(page.items)
    /\ Cardinality(InFlight) = sema.cap
    /\ sema.cap >= 1

\* C6: when main sorts and marshals, every item that was not reused has
\* been handed to a goroutine and every goroutine has ended.
C6_FullBarrier ==
    pc \in {"finish", "done"} =>
        /\ wg = 0
        /\ idx > Len(page.items)
        /\ \A k \in DOMAIN workers :
              /\ workers[k] \in {"none", "exited"}
              /\ workers[k] = "none" => run.scanned[k].filepath \in run.hits

\* Main is about to sort after three goroutines have run.
C6_Witness ==
    /\ pc = "finish"
    /\ Cardinality({k \in DOMAIN workers : workers[k] = "exited"}) >= 3

\* What recomputing the scanned item of slot k gives, from its file alone.
Expected(k) ==
    LET f == files[run.scanned[k].filepath]
    IN  computePreview(loadMetadata(run.scanned[k], f).item, page.Height, f).item

MetadataFails(k) ==
    loadMetadata(run.scanned[k], files[run.scanned[k].filepath]).err

PreviewFails(k) ==
    computePreview(run.scanned[k], page.Height, files[run.scanned[k].filepath]).err

\* C7: a failure for one item does not abort the run (from the loop main
\* goes nowhere but to the sort) and does not change what any item is
\* computed to: every goroutine that is through leaves what its own file
\* gives.
C7_FailureIsolation ==
    /\ [](InLoop =>
            \A k \in DOMAIN workers :
                workers[k] \in {"computed", "released", "exited"}
                    => page.items[k] = Expected(k))
    /\ [][pc = "loop" => pc' \in {"loop", "finish"}]_vars

\* A run past the barrier in which the preview of one item failed and
\* another item was computed in full.
C7_Witness ==
    /\ pc = "finish"
    /\ \E k \in DOMAIN workers : workers[k] = "exited" /\ PreviewFails(k)
    /\ \E k \in DOMAIN workers :
          /\ workers[k] = "exited"
          /\ ~PreviewFails(k)
          /\ ~MetadataFails(k)
          /\ Len(page.items[k].previewSrc) > 0

\* The paths of the <a> lines of the gallery file.
WrittenPaths ==
    {UrlParsePath(XmlUnescape(htmlFile.lines[n].href)) :
        n \in {m \in 1..Len(htmlFile.lines) : htmlFile.lines[m].kind = "a"}}

\* C8: a goroutine calls loadMetadata, then computePreview whether or not
\* loadMetadata failed; an item whose preview failed keeps an empty preview
\* and has no line in the gallery written.
C8_MetadataThenPreview ==
    /\ InLoop =>
          \A k \in DOMAIN workers :
              LET fp == run.scanned[k].filepath
              IN  /\ workers[k] \in {"none", "started"} =>
                        run.metaCalls[fp] = 0 /\ run.previewCalls[fp] = 0
                  /\ workers[k] = "loaded" =>
                        run.metaCalls[fp] = 1 /\ run.previewCalls[fp] = 0
                  /\ workers[k] \in {"computed", "released", "exited"} =>
                        /\ run.metaCalls[fp] = 1
                        /\ run.previewCalls[fp] = 1
                        /\ PreviewFails(k) => page.items[k].previewSrc = <<>>
    /\ pc = "done" =>
          \A k \in DOMAIN run.scanned :
              (run.previewCalls[run.scanned[k].filepath] = 1 /\ PreviewFails(k))
                  => run.scanned[k].filepath \notin WrittenPaths

\* A finished run in which both calls were made and failed for an item,
\* which is not in the gallery, next to an item that is.
C8_Witness ==
    /\ pc = "done"
    /\ \E k \in DOMAIN run.scanned :
          /\ MetadataFails(k) /\ PreviewFails(k)
          /\ run.metaCalls[run.scanned[k].filepath] = 1
          /\ run.previewCalls[run.scanned[k].filepath] = 1
          /\ run.scanned[k].filepath \notin WrittenPaths
    /\ WrittenPaths # {}

\* The paths of the scan.
ScannedPaths == {run.scanned[k].filepath : k \in DOMAIN run.scanned}

\* C9: in one run loadMetadata and computePreview are called at most once
\* per item, never for an item taken from the cache, and exactly once each
\* for every other item of the scan.
C9_CallCounts ==
    /\ \A p \in FileUniverse :
          /\ run.metaCalls[p] <= 1
          /\ run.previewCalls[p] <= 1
          /\ p \in run.hits => run.metaCalls[p] = 0 /\ run.previewCalls[p] = 0
          /\ p \notin ScannedPaths => run.metaCalls[p] = 0 /\ run.previewCalls[p] = 0
    /\ pc \in {"finish", "done"} =>
          \A p \in ScannedPaths \ run.hits :
              run.metaCalls[p] = 1 /\ run.previewCalls[p] = 1

\* The scenario of a.jpg and c.mp4: a finished run that took a.jpg from the
\* cache and recomputed c.mp4, whose prior record has another size.
C9_Witness ==
    /\ pc = "done"
    /\ PathA \in run.hits
    /\ PathC \in ScannedPaths \ run.hits
    /\ PathC \in DOMAIN PriorCache
    /\ PriorCache[PathC].FileSize # files[PathC].size
    /\ run.metaCalls[PathC] = 1 /\ run.previewCalls[PathC] = 1

\* The path, with "/" in front, matches the exclusion pattern of the run.
MatchesExclude(fp) ==
    page.Exclude # <<>> /\ MatchString(page.Exclude, <<"/">> \o fp)

\* C10: no path that matches the exclusion pattern in effect is among the
\* scanned items, the items of the page or the lines of the gallery
\* written, whatever the prior gallery held.
C10_Exclusion ==
    /\ \A p \in ScannedPaths : ~MatchesExclude(p)
    /\ pc \in {"loop", "finish", "done"} =>
          \A k \in DOMAIN page.items : ~MatchesExclude(page.items[k].filepath)
    /\ pc = "done" => \A p \in WrittenPaths : ~MatchesExclude(p)

\* A finished run that excluded a file on disk that the prior gallery held.
C10_Witness ==
    /\ pc = "done"
    /\ \E p \in DOMAIN PriorCache :
          /\ files[p].exists
          /\ MatchesExclude(p)
          /\ p \notin WrittenPaths
    /\ WrittenPaths # {}

(***************************************************************************)
(* Scanning: one item per name.                                            *)
(***************************************************************************)
\* The walk of this run is over: run.scanned is what it found.
Scanned == pc \in {"loop", "finish", "done"}

\* The path with the extension stripped.
Subject(fp) == TrimSuffix(fp, PathExt(fp))

\* The media files on disk of one subject.
Members(g) ==
    {fp \in FileUniverse :
        /\ files[fp].exists
        /\ imageFormatFromExt(PathExt(fp)) # invalidFormat
        /\ Subject(fp) = g}

\* fp comes before q in the priority order: by format (static images, then
\* the animated image, then videos), then by extension.
RanksBefore(fp, q) ==
    \/ imageFormatFromExt(PathExt(fp)) < imageFormatFromExt(PathExt(q))
    \/ /\ imageFormatFromExt(PathExt(fp)) = imageFormatFromExt(PathExt(q))
       /\ StrLess(PathExt(fp), PathExt(q))

\* C11: of the media files on disk that share a path without extension the
\* scan holds one item at most, in one slot, and it is the file that ranks
\* first by format and then by extension; it holds that item whenever the
\* exclusion pattern does not match it.
C11_ExtensionPriority ==
    Scanned =>
        \A g \in {Subject(fp) : fp \in FileUniverse} :
            LET slots == {k \in DOMAIN run.scanned :
                             Subject(run.scanned[k].filepath) = g}
            IN  IF Members(g) = {}
                THEN slots = {}
                ELSE LET best == CHOOSE fp \in Members(g) :
                                     \A q \in Members(g) \ {fp} : RanksBefore(fp, q)
                     IN  /\ \A k \in slots : run.scanned[k].filepath = best
                         /\ Cardinality(slots) <= 1
                         /\ ~MatchesExclude(best) => Cardinality(slots) = 1

\* A finished run over a.jpg, a.JPG and a.mp4 whose gallery holds a.JPG alone
\* of the three.
C11_Witness ==
    /\ pc = "done"
    /\ Members(Subject(PathA)) = {PathA, PathJ, PathV}
    /\ PathJ \in ScannedPaths
    /\ PathJ \in WrittenPaths
    /\ PathA \notin WrittenPaths /\ PathV \notin WrittenPaths

(***************************************************************************)
(* Ordering.                                                               *)
(***************************************************************************)
\* An entry with time t and path fp comes before one with time u and path
\* fq in the mode of the page.
ComesBefore(mode, t, fp, u, fq) ==
    IF mode = "creation_date"
    THEN t < u \/ (t = u /\ StrLess(fp, fq))
    ELSE StrLess(fp, fq)

\* The <a> lines of the gallery file, in order.
WrittenLines == SelectSeq(htmlFile.lines, LAMBDA l : l.kind = "a")

LinePath(l) == UrlParsePath(XmlUnescape(l.href))

\* C12: when the run is over the items of the page, and the lines of the
\* gallery written, are in strictly ascending order: by effective timestamp
\* and then by path in the mode creation_date, by path in the mode
\* file_path.  The order is strict, so there is one such arrangement
\* whatever order the walk found the files in.
C12_OrderingDeterminism ==
    pc = "done" =>
        /\ page.SortBy \in {"creation_date", "file_path"}
        /\ \A i, j \in DOMAIN page.items :
              i < j => ComesBefore(page.SortBy,
                                   dateTime(page.items[i]), page.items[i].filepath,
                                   dateTime(page.items[j]), page.items[j].filepath)
        /\ \A i, j \in DOMAIN WrittenLines :
              i < j => ComesBefore(page.SortBy,
                                   WrittenLines[i].title.time, LinePath(WrittenLines[i]),
                                   WrittenLines[j].title.time, LinePath(WrittenLines[j]))

\* A gallery written in the mode creation_date with two lines of equal
\* timestamps and two lines whose timestamps and paths order them opposite
\* ways.
C12_Witness ==
    /\ pc = "done"
    /\ run.wrote
    /\ page.SortBy = "creation_date"
    /\ \E i, j \in DOMAIN WrittenLines :
          /\ i < j
          /\ WrittenLines[i].title.time = WrittenLines[j].title.time
    /\ \E i, j \in DOMAIN WrittenLines :
          /\ i < j
          /\ WrittenLines[i].title.time < WrittenLines[j].title.time
          /\ StrLess(LinePath(WrittenLines[j]), LinePath(WrittenLines[i]))

(***************************************************************************)
(* The codec.                                                              *)
(***************************************************************************)
\* C13 as stated: unmarshalling what marshalPage wrote for items that all
\* have a preview returns no error and the page marshalled, items and
\* parameters, and marshalling that page gives the same text again.
C13_RoundTrip ==
    codec.damage = "none" =>
        /\ codec.step \in {"decoded", "reencoded"} =>
              ~codec.out.err /\ codec.out.page = codec.page
        /\ codec.step = "reencoded" => codec.again = codec.lines

\* The <html lines.
Headers(lines) == {n \in 1..Len(lines) : lines[n].kind = "html"}

\* A structural line that is not well-formed, or whose base64 or JSON
\* cannot be decoded.
BadLine(l) ==
    \/ /\ l.kind = "html"
       /\ \/ l.magic = "<"
          \/ ~l.gallery.b64
          \/ l.gallery.json = BadJson
    \/ /\ l.kind = "a"
       /\ \/ \E k \in 1..Len(l.href) : l.href[k] \in {"<", "xE9"}
          \/ \E k \in 1..Len(l.title.name) : l.title.name[k] \in {"<", "xE9"}
          \/ ~l.media.b64
          \/ l.media.json = BadJson

\* The magic marker of the one <html line is there.
HasMagic(lines) ==
    \E n \in Headers(lines) : lines[n].magic = "generate-gallery"

StartFile == [exists |-> run.startExists, lines |-> run.startHtml]

\* C15 as stated: an invocation that ends with exit status 1 leaves the
\* DIR.html it found exactly as it was.
C15_FatalLeavesArtifact ==
    (pc = "exit1" /\ run.startExists) => htmlFile = StartFile

\* The DIR.html the invocation found is one that cannot be unmarshalled:
\* no magic marker, several <html lines, or a bad structural line.
StartMalformed ==
    /\ run.startExists
    /\ \/ ~HasMagic(run.startHtml)
       \/ Cardinality(Headers(run.startHtml)) > 1
       \/ \E n \in 1..Len(run.startHtml) : BadLine(run.startHtml[n])

\* A goroutine has been started or a collaborator called.
WorkStarted ==
    \/ \E p \in FileUniverse : run.metaCalls[p] > 0 \/ run.previewCalls[p] > 0
    \/ \E k \in DOMAIN workers : workers[k] # "none"

\* The parameters the command line and the prior gallery give are not valid.
ConfigInvalid ==
    \/ EffectiveHeight(flags.height, run.prior.Height) <= 0
    \/ EffectiveSortBy(flags.sortby, run.prior.SortBy) \notin {"creation_date", "file_path"}
    \/ EffectiveExclude(flags.exclude, run.prior.Exclude) = <<"(">>

\* C16: an invocation that finds no DIR.html goes on with an empty cache,
\* takes no item from it and recomputes every scanned item, and when it
\* exits with status 1 the cause is another one; an invocation that finds a
\* DIR.html that cannot be unmarshalled exits with status 1 at once: it has
\* no cache, scans nothing and computes nothing.
C16_PriorArtifactClassification ==
    pc # "start" =>
        /\ ~run.startExists =>
              /\ cachedItems = <<>>
              /\ ~run.hadPrior
              /\ run.hits = {} /\ numCached = 0
              /\ \A k \in Planned : Recomputed(k)
              /\ pc = "exit1" => (ConfigInvalid \/ disk.walkErr \/ disk.write # "written")
        /\ StartMalformed =>
              /\ pc = "exit1"
              /\ cachedItems = <<>>
              /\ run.scanned = <<>>
              /\ ~WorkStarted
              /\ htmlFile = StartFile

\* An invocation has stopped at a DIR.html with a bad <a> line although the
\* directory holds media files and the parameters are valid.
C16_Witness ==
    /\ pc = "exit1"
    /\ StartMalformed
    /\ \E n \in Anchors(run.startHtml) : BadLine(run.startHtml[n])
    /\ allFileInfos # {}
    /\ ~ConfigInvalid
    /\ ~disk.walkErr

\* C17: work is only ever started by an invocation whose DIR.html, if any,
\* could be unmarshalled and whose parameters are valid; so an invocation
\* that exits because of the one or the other has started no goroutine and
\* called no collaborator.
C17_AbortBeforeWork ==
    /\ WorkStarted =>
          /\ ~StartMalformed
          /\ page.Height > 0
          /\ page.SortBy \in {"creation_date", "file_path"}
          /\ page.Exclude # <<"(">>
    /\ (pc = "exit1" /\ (StartMalformed \/ ConfigInvalid)) => ~WorkStarted

\* An invocation has stopped at an invalid parameter although DIR.html
\* could be unmarshalled and the directory holds media files to work on.
C17_Witness ==
    /\ pc = "exit1"
    /\ run.hadPrior
    /\ ConfigInvalid
    /\ allFileInfos # {}
    /\ ~WorkStarted
    /\ run.scanned = <<>>

(***************************************************************************)
(* Parameters.                                                             *)
(***************************************************************************)
\* The parameters written in the <html line of the gallery file.
WrittenConfig ==
    LET j == htmlFile.lines[1].gallery.json
    IN  [Height |-> j.Height, SortBy |-> j.SortBy,
         Exclude |-> IF "Exclude" \in DOMAIN j THEN j.Exclude ELSE <<>>]

\* The value of the command line when it gives one, else that of the
\* prior gallery when there is one that records it, else the default.
CarriedConfig ==
    [Height |-> IF flags.height # 0 THEN flags.height
                ELSE IF run.hadPrior /\ run.prior.Height # 0 THEN run.prior.Height
                ELSE defaultHeight,
     SortBy |-> IF flags.sortby # "" THEN flags.sortby
                ELSE IF run.hadPrior /\ run.prior.SortBy # "" THEN run.prior.SortBy
                ELSE "creation_date",
     Exclude |-> IF flags.exclude # <<>> THEN flags.exclude
                 ELSE IF run.hadPrior THEN run.prior.Exclude
                 ELSE <<>>]

\* C18: the height, the sort mode and the exclusion pattern the run uses,
\* and writes into the gallery, are those of the command line when it
\* gives them, else those of the prior gallery, else the defaults; a run
\* that is given no height, or the height of the prior gallery, keeps the
\* whole cache.
C18_ConfigCarryForward ==
    /\ pc \in {"walk", "loop", "finish", "done"} =>
          /\ page.Height = CarriedConfig.Height
          /\ page.SortBy = CarriedConfig.SortBy
          /\ page.Exclude = CarriedConfig.Exclude
    /\ pc = "done" => WrittenConfig = CarriedConfig
    /\ (pc # "start" /\ run.hadPrior
          /\ (flags.height = 0 \/ flags.height = run.prior.Height))
          => cachedItems = PriorCache

\* A finished run that was given no height and no sort mode, took both
\* (not the defaults) from the prior gallery, and took an item from the
\* cache.
C18_Witness ==
    /\ pc = "done"
    /\ run.hadPrior
    /\ flags.height = 0 /\ run.prior.Height # defaultHeight
    /\ page.Height = run.prior.Height
    /\ WrittenConfig.Height = run.prior.Height
    /\ run.hits # {}

(***************************************************************************)
(* The prior gallery and the scan.                                         *)
(***************************************************************************)
\* The media files the directory holds.
Discovered ==
    {fp \in FileUniverse :
        files[fp].exists /\ imageFormatFromExt(PathExt(fp)) # invalidFormat}

\* C19: the items of the page, from the scan on, and the lines of the
\* gallery of a finished run are files that this run's walk found in the
\* directory: the prior gallery adds none.
C19_OutputWithinScan ==
    /\ Scanned =>
          \A k \in DOMAIN page.items : page.items[k].filepath \in Discovered
    /\ Scanned => ScannedPaths \subseteq Discovered
    /\ pc = "done" =>
          /\ WrittenPaths \subseteq ScannedPaths
          /\ WrittenPaths \subseteq Discovered

\* A run has written a gallery without an entry of the prior gallery whose
\* file is no longer in the directory.
C19_Witness ==
    /\ pc = "done"
    /\ run.wrote
    /\ \E p \in DOMAIN PriorCache :
          /\ ~files[p].exists
          /\ Len(PriorCache[p].previewSrc) > 0
          /\ p \notin WrittenPaths
    /\ WrittenPaths # {}

(***************************************************************************)
(* Interleavings.                                                          *)
(***************************************************************************)
\* What slot k of the scan must hold after the barrier: the cached item, or
\* what the collaborators give for its file.
SlotResult(k) ==
    IF CacheValid(run.scanned[k], cachedItems)
    THEN cachedItems[run.scanned[k].filepath]
    ELSE Expected(k)

SlotResults == [k \in DOMAIN run.scanned |-> SlotResult(k)]

\* C20: after the barrier the page, and the gallery of a finished run, are
\* a function of the scan, the cache and the files alone: the same whatever
\* the limit of the semaphore and the order in which the goroutines ran.
C20_InterleavingIndependence ==
    /\ pc = "finish" => page.items = SlotResults
    /\ pc = "done" =>
          /\ page.items = SortItems(page.SortBy, SlotResults)
          /\ htmlFile.lines =
                marshalPage([page EXCEPT !.items = SortItems(page.SortBy, SlotResults)])

\* A gallery written by a run with a limit of two or more in which a
\* goroutine started later wrote its preview before one started earlier.
C20_Witness ==
    /\ pc = "done"
    /\ run.wrote
    /\ sema.cap >= 2
    /\ \E i, j \in DOMAIN run.order : i < j /\ run.order[i] > run.order[j]
    /\ WrittenPaths # {}

(***************************************************************************)
(* C21: exclusive item ownership.                                          *)
(***************************************************************************)
\* The goroutines that have touched the slot.
Owners(k) == {a.by : a \in {b \in run.access : b.slot = k /\ b.by # MainThread}}

\* C21: during the recomputation phase every item slot is read or written by
\* at most one goroutine, the one started for it, and the main goroutine
\* touches a slot only before it hands the slot to a goroutine, although it
\* goes on assigning cache hits to other slots while goroutines run.
C21_ExclusiveOwnership ==
    /\ \A k \in DOMAIN workers : Cardinality(Owners(k)) <= 1 /\ Owners(k) \subseteq {k}
    /\ \A a \in run.access : a.by = MainThread => ~a.handed
    /\ \A a \in run.access : a.by # MainThread => a.handed

\* A goroutine is at work on its item while the main goroutine has gone on
\* to assign a cache hit to a later slot.
C21_Witness ==
    /\ pc = "loop"
    /\ \E w \in DOMAIN workers :
          /\ workers[w] = "loaded"
          /\ Owners(w) = {w}
          /\ \E k \in DOMAIN workers :
                /\ k > w
                /\ page.items[k].filepath \in run.hits
                /\ Access(k, MainThread) \in run.access

(***************************************************************************)
(* C22: a collaborator that hangs.                                         *)
(***************************************************************************)
\* The external call on the item of slot k never returns.
HungSlot(k) == k \in DOMAIN workers /\ Hangs(files[page.items[k].filepath])

\* The loop has not reached slot k, whose item is to be recomputed.
Pending(k) ==
    /\ pc = "loop"
    /\ k \in DOMAIN workers
    /\ workers[k] = "none"
    /\ k >= idx
    /\ ~CacheValid(page.items[k], cachedItems)

\* The goroutine of slot k has made both calls and has exited.
Processed(k) == k \in DOMAIN workers /\ workers[k] = "exited"

\* One of the items of the run is the one that hangs.
OneHangs == \E h \in DOMAIN workers : HungSlot(h)

\* Once the goroutine of a hanging item is started the run stays in the loop
\* or at wg.Wait().
NeverPastBarrier ==
    \A h \in DOMAIN workers : (HungSlot(h) /\ workers[h] # "none") => pc = "loop"

\* C22 as stated: when one goroutine's external call never returns, every
\* other pending item is still computed in the end, whatever the limit of the
\* semaphore, and the run never passes wg.Wait().
C22_HungCollaborator ==
    /\ []NeverPastBarrier
    /\ \A k \in Slots : (OneHangs /\ Pending(k) /\ ~HungSlot(k)) ~> Processed(k)

\* C22 as amended: the same for a limit of two or more.
C22_HungCollaboratorPool ==
    /\ []NeverPastBarrier
    /\ \A k \in Slots :
          (OneHangs /\ sema.cap >= 2 /\ Pending(k) /\ ~HungSlot(k)) ~> Processed(k)

\* The goroutine of the hanging item holds its slot, an item after it has
\* been computed through the other slot, and the main goroutine is at wg.Wait().
C22_Witness ==
    /\ pc = "loop"
    /\ idx > Len(page.items)
    /\ sema.cap >= 2
    /\ wg = 1
    /\ \E h, k \in DOMAIN workers :
          /\ HungSlot(h) /\ workers[h] = "started"
          /\ k > h /\ workers[k] = "exited"
          /\ Len(page.items[k].previewSrc) > 0

(***************************************************************************)
(* C23: deadlock freedom and termination.                                  *)
(***************************************************************************)
\* Every external call returns.
NoFileHangs == \A p \in FileUniverse : ~Hangs(files[p])

\* C23: when every external call returns, under fair scheduling the main
\* goroutine gets past every iteration of the loop (it is never blocked
\* forever on the semaphore), every pending item is processed, wg.Wait()
\* returns, and the process exits, for every number of pending items and
\* every limit of the semaphore.
C23_Termination ==
    /\ \A k \in Slots :
          (NoFileHangs /\ pc = "loop" /\ idx = k /\ k <= Len(page.items)) ~> (idx > k)
    /\ \A k \in Slots : (NoFileHangs /\ Pending(k)) ~> Processed(k)
    /\ (NoFileHangs /\ pc = "loop") ~> (pc = "finish")
    /\ (NoFileHangs /\ ~Stopped) ~> Stopped

\* A run with more pending items than slots has come to its end.
C23_Witness ==
    /\ pc = "done"
    /\ NoFileHangs
    /\ Len(run.order) > sema.cap
    /\ \A k \in DOMAIN workers : workers[k] = "exited"

(***************************************************************************)
(* C24: the exclusion pattern is tested after the canonical file is chosen.*)
(***************************************************************************)
\* The file of the subject that ranks first.
Canonical(g) ==
    CHOOSE fp \in Members(g) : \A q \in Members(g) \ {fp} : RanksBefore(fp, q)

\* The paths of the subject among the scanned items.
ScannedOf(g) ==
    {run.scanned[k].filepath :
        k \in {l \in DOMAIN run.scanned : Subject(run.scanned[l].filepath) = g}}

\* C24: of the files of one subject the exclusion pattern is tested against
\* the canonical one alone: when it matches, no file of the subject is an
\* item (no sibling takes its place); when it does not match, the canonical
\* file is the item, whether or not the pattern matches a sibling.
C24_ExclusionAfterSelection ==
    Scanned =>
        \A g \in {Subject(fp) : fp \in FileUniverse} :
            Members(g) # {} =>
                IF MatchesExclude(Canonical(g))
                THEN ScannedOf(g) = {}
                ELSE ScannedOf(g) = {Canonical(g)}

\* A finished run with a pattern that matches a.jpg, the canonical file, and
\* not its sibling a.mp4: the gallery holds other files and neither of the two.
C24_Witness ==
    /\ pc = "done"
    /\ Members(Subject(PathA)) = {PathA, PathV}
    /\ MatchesExclude(PathA) /\ ~MatchesExclude(PathV)
    /\ ScannedOf(Subject(PathA)) = {}
    /\ WrittenPaths # {}
    /\ PathA \notin WrittenPaths /\ PathV \notin WrittenPaths
====
